---------------------------- MODULE Spec2Model ----------------------------
(***************************************************************************)
(* Job-queue backend of the website optimizer (src/server.js).             *)
(*                                                                         *)
(* src/server.js holds three server variants one after the other:          *)
(*   lines    1..396   JSON-file store, server-side completion e-mail      *)
(*   lines  397..966   spreadsheet store with in-memory fallback, e-mail   *)
(*   lines  967..1236  JSON-file store, no e-mail                          *)
(*                                                                         *)
(* Spec      is the first variant: one action per HTTP request, routed in  *)
(*           registration order, handled to completion.                    *)
(* SpecSheet is the second variant, every spreadsheet request of a handler *)
(*           succeeding or failing independently.                          *)
(* SpecRestart is the first variant with restarts of the process between  *)
(*           requests, loadDatabase reading the file saveDatabase wrote.   *)
(* SpecMail  is the first variant completing one job, started from every   *)
(*           pair of recorded score records.                               *)
(* SpecAsync is the first variant's admin handlers followed await by      *)
(*           await, the writes of the file finishing in any order;         *)
(*           SpecAsyncDistinct lets only requests on different jobs        *)
(*           overlap.                                                      *)
(* SpecLimited is the first variant behind its two rate limiters.          *)
(*                                                                         *)
(* Outside SpecLimited the requests are the ones the two rate limiters let *)
(* through; fs.writeFile is taken to succeed.                              *)
(***************************************************************************)
EXTENDS Integers, Sequences, FiniteSets, TLC

VARIABLES
    memoryJobs,   \* the Map id -> job (server.js:73, 516)
    disk,         \* content of DB_PATH as written by saveDatabase
    sheet,        \* rows of Jobs!A2:J, each a 10-cell row (second variant)
    uuidCount,    \* number of ids uuidv4() has handed out
    now,          \* the clock read by new Date()
    adminKey,     \* process.env.ADMIN_API_KEY
    last,         \* the request handled last and the response it got
    calls,        \* the requests whose handlers are followed await by await
    limits        \* the request counts of the two rate limiters

vars == <<memoryJobs, disk, sheet, uuidCount, now, adminKey, last, calls, limits>>

---------------------------------------------------------------------------
(* Bounds *)

MaxJobs == 2      \* jobs created in one behaviour
MaxTime == 1      \* clock instants 0..MaxTime
MaxPerformance == 100   \* lighthouse performance scores 0..MaxPerformance
MaxCalls == 3     \* requests followed await by await in one behaviour

---------------------------------------------------------------------------
(* JavaScript values.  Strings are tuples of one-character strings so that *)
(* the URL parser and the e-mail pattern can look inside them.             *)

Undefined == [t |-> "undefined"]
Null      == [t |-> "null"]
Str(s)    == [t |-> "string", v |-> s]            \* a string of the request
Lit(s)    == [t |-> "literal", v |-> s]           \* a non-empty string the code makes
ISODate(n) == [t |-> "isodate", v |-> n]          \* new Date().toISOString()
Scores(f) == [t |-> "object", f |-> f]            \* a lighthouse score record
Num(n)    == [t |-> "number", v |-> n]            \* a number read out of an object

\* JavaScript truthiness ( !x , x || y , x ? a : b ); a job object is truthy
Truthy(x) ==
    "t" \in DOMAIN x =>
        /\ x.t \notin {"undefined", "null"}
        /\ (x.t = "string" => x.v # <<>>)
        /\ (x.t = "number" => x.v # 0)

\* a || b
OrElse(a, b) == IF Truthy(a) THEN a ELSE b

\* const { k } = obj
Field(obj, k) == IF k \in DOMAIN obj THEN obj[k] ELSE Undefined

EmptyObject == [k \in {} |-> Undefined]

\* the values uuidv4() returns, in the order it returns them
UUIDS == <<"id1", "id2", "id3", "id4", "id5", "id6">>

\* mutant: an id generator that repeats itself
uuidv4_Repeats == UUIDS[1]

uuidv4 == UUIDS[uuidCount + 1]

\* position of an id in creation order (0 for a string that is no uuid)
UuidIndex(id) ==
    IF \E i \in 1..Len(UUIDS) : UUIDS[i] = id
    THEN CHOOSE i \in 1..Len(UUIDS) : UUIDS[i] = id
    ELSE 0

RECURSIVE InsertionOrder(_)
\* the keys of a Map whose keys are uuids, in insertion order
InsertionOrder(ids) ==
    IF ids = {} THEN <<>>
    ELSE LET first == CHOOSE a \in ids : \A b \in ids : UuidIndex(a) <= UuidIndex(b)
         IN  <<first>> \o InsertionOrder(ids \ {first})

---------------------------------------------------------------------------
(* Admin gate *)

\* requireAdminAuth passes the request on (TRUE) or answers 401 (FALSE)
requireAdminAuth(apiKey) ==
    ~ (~Truthy(adminKey) \/ apiKey # adminKey)

---------------------------------------------------------------------------
(* JSON database: first variant *)

NoFile == [t |-> "ENOENT"]

\* JSON.stringify drops the properties whose value is undefined
JSONStringify(jobs) ==
    [id \in DOMAIN jobs |->
        [k \in {k \in DOMAIN jobs[id] : jobs[id][k] # Undefined} |-> jobs[id][k]]]

saveDatabase(jobs) == JSONStringify(jobs)

\* the properties of a job object
JobFields == {"id", "url", "email", "status", "created_at", "completed_at",
              "lighthouse_before", "lighthouse_after", "netlify_url", "notes"}

\* mutant: the file is ignored at start
loadDatabase_StartsFresh(file) == [id \in {} |-> EmptyObject]

\* memoryJobs after loadDatabase: new Map(Object.entries(JSON.parse(data))),
\* an empty Map when readFile or JSON.parse throws.  A property the file
\* does not hold reads as undefined.
loadDatabase(file) ==
    IF file = NoFile THEN [id \in {} |-> EmptyObject]
    ELSE [id \in DOMAIN file |-> [k \in JobFields |-> Field(file[id], k)]]

createJob(jobs, id, url, email) ==
    [i \in DOMAIN jobs \cup {id} |->
        IF i = id
        THEN [id |-> Lit(id), url |-> url, email |-> email,
              status |-> Lit("submitted"),
              created_at |-> ISODate(now), completed_at |-> Null,
              lighthouse_before |-> Null, lighthouse_after |-> Null,
              netlify_url |-> Null, notes |-> Null]
        ELSE jobs[i]]

getPendingJobs(jobs) ==
    SelectSeq([i \in 1..Cardinality(DOMAIN jobs) |-> jobs[InsertionOrder(DOMAIN jobs)[i]]],
              LAMBDA j : j.status = Lit("submitted"))

getAllJobs(jobs) ==
    [i \in 1..Cardinality(DOMAIN jobs) |-> jobs[InsertionOrder(DOMAIN jobs)[i]]]

getJobById(jobs, id) == IF id \in DOMAIN jobs THEN jobs[id] ELSE Null

updateJobStatus(jobs, id, status) ==
    IF id \in DOMAIN jobs THEN [jobs EXCEPT ![id].status = status] ELSE jobs

saveLighthouseBefore(jobs, id, scores) ==
    IF id \in DOMAIN jobs THEN [jobs EXCEPT ![id].lighthouse_before = scores] ELSE jobs

\* mutant: the new scores are merged into the stored record field by field
saveLighthouseAfter_Merges(jobs, id, scores) ==
    IF id \in DOMAIN jobs
    THEN LET old == OrElse(jobs[id].lighthouse_after, Scores(EmptyObject))
         IN  [jobs EXCEPT ![id].lighthouse_after =
                 Scores([k \in DOMAIN old.f \cup DOMAIN scores.f |->
                            IF k \in DOMAIN scores.f THEN scores.f[k] ELSE old.f[k]])]
    ELSE jobs

saveLighthouseAfter(jobs, id, scores) ==
    IF id \in DOMAIN jobs THEN [jobs EXCEPT ![id].lighthouse_after = scores] ELSE jobs

\* mutant: completion that also resets the score fields
completeJob_ClearsScores(jobs, id, netlifyUrl, notes) ==
    IF id \in DOMAIN jobs
    THEN [jobs EXCEPT ![id].status = Lit("completed"),
                      ![id].completed_at = ISODate(now),
                      ![id].lighthouse_before = Null,
                      ![id].lighthouse_after = Null,
                      ![id].netlify_url = netlifyUrl,
                      ![id].notes = notes]
    ELSE jobs

completeJob(jobs, id, netlifyUrl, notes) ==
    IF id \in DOMAIN jobs
    THEN [jobs EXCEPT ![id].status = Lit("completed"),
                      ![id].completed_at = ISODate(now),
                      ![id].netlify_url = netlifyUrl,
                      ![id].notes = notes]
    ELSE jobs

---------------------------------------------------------------------------
(* Validation of POST /api/jobs *)

Space == " "
AsciiAlpha == {"a", "b", "h", "l", "n", "o", "p", "r", "t", "u", "x"}
SchemeExtra == {"+", "-", "."}

RECURSIVE TrimLeft(_)
TrimLeft(s) == IF s # <<>> /\ Head(s) = Space THEN TrimLeft(Tail(s)) ELSE s

RECURSIVE TrimRight(_)
TrimRight(s) ==
    IF s # <<>> /\ s[Len(s)] = Space THEN TrimRight(SubSeq(s, 1, Len(s) - 1)) ELSE s

\* schemes whose URLs need a host
SpecialSchemes == { <<"h", "t", "t", "p">> }

RECURSIVE SkipSlashes(_)
SkipSlashes(s) == IF s # <<>> /\ Head(s) = "/" THEN SkipSlashes(Tail(s)) ELSE s

\* the host of a special URL: what follows the slashes, up to the next slash
HostOf(rest) ==
    LET r == SkipSlashes(rest)
        stops == {i \in 1..Len(r) : r[i] = "/"}
        end == IF stops = {} THEN Len(r)
               ELSE (CHOOSE i \in stops : \A j \in stops : i <= j) - 1
    IN  SubSeq(r, 1, end)

\* new URL(url) with no base returns (TRUE) or throws (FALSE): the input is
\* trimmed, must open with a scheme (a letter, then letters, "+", "-", "."
\* up to the first ":"), and a special scheme needs a non-empty host without
\* spaces.
URLParses(url) ==
    LET s == TrimRight(TrimLeft(url))
    IN  \E k \in 2..Len(s) :
            /\ s[k] = ":"
            /\ s[1] \in AsciiAlpha
            /\ \A i \in 2..(k - 1) : s[i] \in AsciiAlpha \cup SchemeExtra
            /\ SubSeq(s, 1, k - 1) \in SpecialSchemes =>
                  LET host == HostOf(SubSeq(s, k + 1, Len(s)))
                  IN  host # <<>> /\ \A i \in 1..Len(host) : host[i] # Space

\* [^\s@]+
NoSpaceNoAt(s) == s # <<>> /\ \A i \in 1..Len(s) : s[i] \notin {Space, "@"}

\* mutant: the pattern without its ".tld" part, /^[^\s@]+@[^\s@]+$/
emailRegexTest_NoTld(email) ==
    \E i \in 1..Len(email) :
        /\ email[i] = "@"
        /\ NoSpaceNoAt(SubSeq(email, 1, i - 1))
        /\ NoSpaceNoAt(SubSeq(email, i + 1, Len(email)))

\* /^[^\s@]+@[^\s@]+\.[^\s@]+$/.test(email)
emailRegexTest(email) ==
    \E i, j \in 1..Len(email) :
        /\ i < j
        /\ email[i] = "@"
        /\ email[j] = "."
        /\ NoSpaceNoAt(SubSeq(email, 1, i - 1))
        /\ NoSpaceNoAt(SubSeq(email, i + 1, j - 1))
        /\ NoSpaceNoAt(SubSeq(email, j + 1, Len(email)))

---------------------------------------------------------------------------
(* Requests *)

GoodKey  == Str(<<"k">>)
WrongKey == Str(<<"w">>)

UrlGood   == Str(<<"h", "t", "t", "p", ":", "/", "/", "a", ".", "b">>)
UrlNotUrl == Str(<<"n", "o", "t", " ", "a", " ", "u", "r", "l">>)
UrlNoHost == Str(<<"h", "t", "t", "p", ":", "/", "/">>)

EmailGood  == Str(<<"a", "@", "b", ".", "x">>)
EmailNot   == Str(<<"n", "o", "t", "-", "a", "n", "-", "e", "m", "a", "i", "l">>)
EmailNoTld == Str(<<"a", "@", "b">>)
EmailSpace == Str(<<"a", " ", "@", "b", ".", "x">>)

S1 == Scores([performance |-> 50])
S2 == Scores([performance |-> 90, seo |-> 80])
U1 == Str(<<"u", "1">>)
U2 == Str(<<"u", "2">>)
N1 == Str(<<"n", "1">>)

\* ids a request can name: each exists once its job is created, not before
RequestIds == {UUIDS[i] : i \in 1..MaxJobs}

\* the job the requests exercise with every input; the other ids get one
\* input of each kind
FirstId == UUIDS[1]

Req(method, path, key, body) ==
    [method |-> method, path |-> path, key |-> key, body |-> body]

CreateRequests ==
    {Req("POST", <<"api", "jobs">>, Undefined, b) : b \in
        {[url |-> u, email |-> EmailGood] :
            u \in {UrlGood, UrlNotUrl, UrlNoHost, Str(<<>>)}}
        \cup {[url |-> UrlGood, email |-> e] : e \in {EmailNot, EmailNoTld, EmailSpace}}
        \cup {[email |-> EmailGood], [url |-> UrlGood]}}

GetRequests ==
    {Req("GET", <<"api", "jobs", id>>, Undefined, EmptyObject) : id \in RequestIds}
    \cup {Req("GET", <<"api", "jobs", w>>, k, EmptyObject) :
            w \in {"pending", "all"}, k \in {Undefined, WrongKey, GoodKey}}

ScoresFor(id) == IF id = FirstId THEN {S1, S2} ELSE {S1}

LighthouseRequests ==
    {Req("POST", <<"api", "jobs", p[1], w>>, GoodKey, [scores |-> p[2]]) :
        p \in {q \in RequestIds \X {S1, S2} : q[2] \in ScoresFor(q[1])},
        w \in {"lighthouse-before", "lighthouse-after"}}
    \cup {Req("POST", <<"api", "jobs", FirstId, w>>, k, [scores |-> S1]) :
        w \in {"lighthouse-before", "lighthouse-after"}, k \in {Undefined, WrongKey}}

CompleteBodiesFor(id) ==
    IF id = FirstId
    THEN {[netlifyUrl |-> U1, notes |-> N1], [netlifyUrl |-> U2],
          [notes |-> N1], [netlifyUrl |-> Str(<<>>), notes |-> N1]}
    ELSE {[netlifyUrl |-> U1, notes |-> N1], [notes |-> N1]}

CompleteRequests ==
    UNION {{Req("POST", <<"api", "jobs", id, "complete">>, GoodKey, b) :
                b \in CompleteBodiesFor(id)} : id \in RequestIds}
    \cup {Req("POST", <<"api", "jobs", FirstId, "complete">>, k,
              [netlifyUrl |-> U1, notes |-> N1]) : k \in {Undefined, WrongKey}}

Requests == CreateRequests \cup GetRequests \cup LighthouseRequests \cup CompleteRequests

---------------------------------------------------------------------------
(* Routing: app.post / app.get in registration order *)

Route(method, path, auth, handler) ==
    [method |-> method, path |-> path, auth |-> auth, handler |-> handler]

Routes == <<
    Route("POST", <<"api", "jobs">>, FALSE, "submitJob"),
    Route("GET",  <<"api", "jobs", ":id">>, FALSE, "checkJobStatus"),
    Route("GET",  <<"api", "jobs", "pending">>, TRUE, "pendingJobs"),
    Route("GET",  <<"api", "jobs", "all">>, TRUE, "allJobs"),
    Route("POST", <<"api", "jobs", ":id", "lighthouse-before">>, TRUE, "lighthouseBefore"),
    Route("POST", <<"api", "jobs", ":id", "lighthouse-after">>, TRUE, "lighthouseAfter"),
    Route("POST", <<"api", "jobs", ":id", "complete">>, TRUE, "completeJob") >>

\* a route's path matches segment by segment, ":id" matching any segment
PathMatches(pattern, path) ==
    /\ Len(pattern) = Len(path)
    /\ \A i \in 1..Len(pattern) : pattern[i] = ":id" \/ pattern[i] = path[i]

RouteMatches(route, r) == route.method = r.method /\ PathMatches(route.path, r.path)

\* the first registered route that matches; it answers, so no later one runs
MatchRoute(r) ==
    LET hits == {i \in 1..Len(Routes) : RouteMatches(Routes[i], r)}
    IN  IF hits = {} THEN Route(r.method, r.path, FALSE, "none")
        ELSE Routes[CHOOSE i \in hits : \A j \in hits : i <= j]

---------------------------------------------------------------------------
(* E-mail *)

NoMail == [attempted |-> FALSE]

\* scores.performance
Performance(scores) ==
    IF "performance" \in DOMAIN scores.f THEN Num(scores.f.performance) ELSE Undefined

\* Math.round, of the integers the scores are
MathRound(n) == n

\* const improvement = after.performance && before.performance
\*     ? Math.round(after.performance - before.performance) : null
Improvement(job) ==
    LET before == OrElse(job.lighthouse_before, Scores(EmptyObject))
        after  == OrElse(job.lighthouse_after, Scores(EmptyObject))
    IN  IF Truthy(Performance(after)) /\ Truthy(Performance(before))
        THEN Num(MathRound(Performance(after).v - Performance(before).v))
        ELSE Null

\* the message handed to sendMail; delta is the number of the "+N Punkte"
\* block of the html, Null where the block is left out
Message(job, delivered) ==
    [attempted |-> TRUE, to |-> job.email, delta |-> Improvement(job),
     delivered |-> delivered]

\* mutant: the rejection of sendMail is not caught
sendCompletionEmail_Rethrows(job, sendMailOk) ==
    IF job = Null
    THEN [threw |-> TRUE, success |-> FALSE, mail |-> NoMail]
    ELSE [threw |-> ~sendMailOk, success |-> sendMailOk,
          mail |-> Message(job, sendMailOk)]

\* sendMailOk is whether emailTransporter.sendMail resolved.  A rejection is
\* caught and returned; reading job.lighthouse_before of a null job, before
\* the try block, throws.
sendCompletionEmail(job, sendMailOk) ==
    IF job = Null
    THEN [threw |-> TRUE, success |-> FALSE, mail |-> NoMail]
    ELSE IF sendMailOk
    THEN [threw |-> FALSE, success |-> TRUE, mail |-> Message(job, TRUE)]
    ELSE [threw |-> FALSE, success |-> FALSE, mail |-> Message(job, FALSE)]

---------------------------------------------------------------------------
(* Handlers of the first variant.  Each returns the store it leaves, whether *)
(* saveDatabase ran, whether uuidv4 was called, the mail it tried to send    *)
(* and the response.                                                         *)

Reply(jobs, saved, created, status, body) ==
    [jobs |-> jobs, saved |-> saved, created |-> created, mail |-> NoMail,
     status |-> status, body |-> body]

Error(status, message) ==
    Reply(memoryJobs, FALSE, FALSE, status, [error |-> message])

\* app.post('/api/jobs')
submitJob(r) ==
    LET url   == Field(r.body, "url")
        email == Field(r.body, "email")
    IN  IF ~Truthy(url) \/ ~Truthy(email) THEN Error(400, "URL and email required")
        ELSE IF ~URLParses(url.v) THEN Error(400, "Invalid URL")
        ELSE IF ~emailRegexTest(email.v) THEN Error(400, "Invalid email")
        ELSE Reply(createJob(memoryJobs, uuidv4, url, email), TRUE, TRUE, 200,
                   [success |-> TRUE, message |-> "Job submitted!", jobId |-> Lit(uuidv4)])

\* app.get('/api/jobs/:id')
checkJobStatus(r) ==
    LET job == getJobById(memoryJobs, r.path[3])
    IN  IF ~Truthy(job) THEN Error(404, "Job not found")
        ELSE Reply(memoryJobs, FALSE, FALSE, 200, job)

\* app.get('/api/jobs/pending')
pendingJobs(r) == Reply(memoryJobs, FALSE, FALSE, 200, getPendingJobs(memoryJobs))

\* app.get('/api/jobs/all')
allJobs(r) == Reply(memoryJobs, FALSE, FALSE, 200, getAllJobs(memoryJobs))

\* app.post('/api/jobs/:id/lighthouse-before')
lighthouseBefore(r) ==
    LET id     == r.path[3]
        scores == Field(r.body, "scores")
        jobs1  == updateJobStatus(memoryJobs, id, Lit("processing"))
        jobs2  == saveLighthouseBefore(jobs1, id, scores)
    IN  Reply(jobs2, id \in DOMAIN memoryJobs, FALSE, 200, [success |-> TRUE])

\* mutant: lighthouse-after also marks the job as processing
lighthouseAfter_MarksProcessing(r) ==
    LET id     == r.path[3]
        scores == Field(r.body, "scores")
        jobs1  == updateJobStatus(memoryJobs, id, Lit("processing"))
    IN  Reply(saveLighthouseAfter(jobs1, id, scores), id \in DOMAIN memoryJobs,
              FALSE, 200, [success |-> TRUE])

\* mutant: lighthouse-after puts the job back in the queue
lighthouseAfter_Requeues(r) ==
    LET id     == r.path[3]
        scores == Field(r.body, "scores")
        jobs1  == updateJobStatus(memoryJobs, id, Lit("submitted"))
    IN  Reply(saveLighthouseAfter(jobs1, id, scores), id \in DOMAIN memoryJobs,
              FALSE, 200, [success |-> TRUE])

\* app.post('/api/jobs/:id/lighthouse-after')
lighthouseAfter(r) ==
    LET id     == r.path[3]
        scores == Field(r.body, "scores")
    IN  Reply(saveLighthouseAfter(memoryJobs, id, scores), id \in DOMAIN memoryJobs,
              FALSE, 200, [success |-> TRUE])

\* mutant: the body is not checked for netlifyUrl
completeJobRoute_NoValidation(r, sendMailOk) ==
    LET id         == r.path[3]
        netlifyUrl == Field(r.body, "netlifyUrl")
        notes      == Field(r.body, "notes")
        job        == getJobById(memoryJobs, id)
        jobs1      == completeJob(memoryJobs, id, netlifyUrl, notes)
        updatedJob == getJobById(jobs1, id)
        emailResult == sendCompletionEmail(updatedJob, sendMailOk)
    IN  IF ~Truthy(job) THEN Error(404, "Job not found")
        ELSE [Reply(jobs1, TRUE, FALSE, 200,
                    [success |-> TRUE, emailSent |-> emailResult.success,
                     job |-> updatedJob])
                  EXCEPT !.mail = emailResult.mail]

\* mutant: only a job that is processing can be completed
completeJobRoute_RequiresProcessing(r, sendMailOk) ==
    LET id         == r.path[3]
        netlifyUrl == Field(r.body, "netlifyUrl")
        notes      == Field(r.body, "notes")
        job        == getJobById(memoryJobs, id)
        jobs1      == completeJob(memoryJobs, id, netlifyUrl, notes)
        updatedJob == getJobById(jobs1, id)
        emailResult == sendCompletionEmail(updatedJob, sendMailOk)
    IN  IF ~Truthy(netlifyUrl) THEN Error(400, "netlifyUrl required")
        ELSE IF ~Truthy(job) THEN Error(404, "Job not found")
        ELSE IF job.status # Lit("processing") THEN Error(409, "Job is not processing")
        ELSE [Reply(jobs1, TRUE, FALSE, 200,
                    [success |-> TRUE, emailSent |-> emailResult.success,
                     job |-> updatedJob])
                  EXCEPT !.mail = emailResult.mail]

\* app.post('/api/jobs/:id/complete')
completeJobRoute(r, sendMailOk) ==
    LET id         == r.path[3]
        netlifyUrl == Field(r.body, "netlifyUrl")
        notes      == Field(r.body, "notes")
        job        == getJobById(memoryJobs, id)
        jobs1      == completeJob(memoryJobs, id, netlifyUrl, notes)
        updatedJob == getJobById(jobs1, id)
        emailResult == sendCompletionEmail(updatedJob, sendMailOk)
    IN  IF ~Truthy(netlifyUrl) THEN Error(400, "netlifyUrl required")
        ELSE IF ~Truthy(job) THEN Error(404, "Job not found")
        ELSE IF emailResult.threw
             THEN [Reply(jobs1, TRUE, FALSE, 500, [error |-> "thrown in sendCompletionEmail"])
                       EXCEPT !.mail = emailResult.mail]
        ELSE [Reply(jobs1, TRUE, FALSE, 200,
                    [success |-> TRUE, emailSent |-> emailResult.success,
                     job |-> updatedJob])
                  EXCEPT !.mail = emailResult.mail]

\* what the matched route answers: the admin gate first where it is registered
Respond(r, sendMailOk) ==
    LET route == MatchRoute(r)
        h == route.handler
    IN  IF h = "none" THEN Error(404, "Cannot " \o r.method)
        ELSE IF route.auth /\ ~requireAdminAuth(r.key) THEN Error(401, "Unauthorized")
        ELSE CASE h = "submitJob"        -> submitJob(r)
               [] h = "checkJobStatus"   -> checkJobStatus(r)
               [] h = "pendingJobs"      -> pendingJobs(r)
               [] h = "allJobs"          -> allJobs(r)
               [] h = "lighthouseBefore" -> lighthouseBefore(r)
               [] h = "lighthouseAfter"  -> lighthouseAfter(r)
               [] h = "completeJob"      -> completeJobRoute(r, sendMailOk)

---------------------------------------------------------------------------
(* The first variant as a state machine *)

\* no request counted in either window
NoHits == [api |-> 0, jobs |-> 0]

NoRequest == [req |-> Req("NONE", <<>>, Undefined, EmptyObject),
              handler |-> "none", status |-> 0, body |-> EmptyObject, mail |-> NoMail]

Init ==
    /\ memoryJobs = [id \in {} |-> EmptyObject]
    /\ disk = NoFile
    /\ sheet = <<>>
    /\ uuidCount = 0
    /\ now = 0
    /\ adminKey \in {GoodKey, Undefined}
    /\ last = NoRequest
    /\ calls = <<>>
    /\ limits = NoHits

\* the routes serve a request, from the first matching route to the response
Handle(r, sendMailOk) ==
    \E o \in {Respond(r, sendMailOk)} :
        /\ o.created => uuidCount < MaxJobs
        /\ memoryJobs' = o.jobs
        /\ disk' = IF o.saved THEN saveDatabase(o.jobs) ELSE disk
        /\ uuidCount' = IF o.created THEN uuidCount + 1 ELSE uuidCount
        /\ last' = [req |-> r, handler |-> MatchRoute(r).handler,
                    status |-> o.status, body |-> o.body, mail |-> o.mail]
        /\ UNCHANGED <<sheet, now, adminKey, calls>>

\* one HTTP request the limiters let through, from arrival to response
Request(r, sendMailOk) == Handle(r, sendMailOk) /\ UNCHANGED limits

\* time passes
Tick ==
    /\ now < MaxTime
    /\ now' = now + 1
    /\ UNCHANGED <<memoryJobs, disk, sheet, uuidCount, adminKey, last, calls, limits>>

\* sendMail can fail only where it is called
MailOutcomes(r) == IF MatchRoute(r).handler = "completeJob" THEN BOOLEAN ELSE {TRUE}

Next ==
    \/ \E r \in Requests : \E sendMailOk \in MailOutcomes(r) : Request(r, sendMailOk)
    \/ Tick

Spec == Init /\ [][Next]_vars

---------------------------------------------------------------------------
(* Spreadsheet database: second variant.  A row is the ten cells A..J of   *)
(* one line of the Jobs sheet, in the column order of initSheet:           *)
(*   1 id, 2 url, 3 email, 4 status, 5 created_at, 6 completed_at,         *)
(*   7 lighthouse_before, 8 lighthouse_after, 9 netlify_url, 10 notes      *)
(* Every store function takes the outcomes of the sheetsRequest calls it   *)
(* makes (TRUE: the response was ok, FALSE: sheetsRequest threw) and       *)
(* returns the sheet and the fallback Map it leaves.                       *)

\* SHEET_ID && GOOGLE_ACCESS_TOKEN
SheetConfigured == TRUE

EmptyCell == Str(<<>>)

\* JSON.stringify(scores) as a cell
JSONCell(scores) == [t |-> "json", v |-> scores]

\* JSON.parse throws on a cell that holds no JSON text
JSONParseThrows(cell) == cell.t # "json"
JSONParse(cell) == cell.v

\* a value written to a cell: null (and undefined, which JSON.stringify turns
\* into null inside an array) leaves the cell as it is
WriteCell(old, value) == IF value \in {Null, Undefined} THEN old ELSE value

\* the cell a new row gets for a value
NewCell(value) == WriteCell(EmptyCell, value)

\* sheetsRequest('Jobs!A:J', 'POST', { values: [[...]] })
AppendRow(sh, values) == Append(sh, [c \in 1..10 |-> NewCell(values[c])])

\* sheetsRequest(`Jobs!<col><rowIndex + 2>...`, 'PUT', { values: [values] }):
\* the values go to the cells from column col on, one after the other
PutCells(sh, r, col, values) ==
    [sh EXCEPT ![r] = [c \in 1..10 |->
        IF c >= col /\ c < col + Len(values)
        THEN WriteCell(sh[r][c], values[c - col + 1])
        ELSE sh[r][c]]]

\* result.values.findIndex(r => r[0] === id), 0 where the code gets -1
FindIndex(sh, id) ==
    IF \E r \in 1..Len(sh) : sh[r][1] = Lit(id)
    THEN CHOOSE r \in 1..Len(sh) : sh[r][1] = Lit(id) /\ \A q \in 1..(r - 1) : sh[q][1] # Lit(id)
    ELSE 0

\* the row -> job mapping of getPendingJobs, getAllJobs and getJobById
RowThrows(row) ==
    \/ Truthy(row[7]) /\ JSONParseThrows(row[7])
    \/ Truthy(row[8]) /\ JSONParseThrows(row[8])

RowToJob(row) ==
    [id |-> row[1], url |-> row[2], email |-> row[3], status |-> row[4],
     created_at |-> row[5],
     completed_at |-> OrElse(row[6], Null),
     lighthouse_before |-> IF Truthy(row[7]) THEN JSONParse(row[7]) ELSE Null,
     lighthouse_after |-> IF Truthy(row[8]) THEN JSONParse(row[8]) ELSE Null,
     netlify_url |-> OrElse(row[9], Null),
     notes |-> OrElse(row[10], Null)]

Stored(sh, mem) == [sheet |-> sh, mem |-> mem]

MemSet(mem, id, job) == [i \in DOMAIN mem \cup {id} |-> IF i = id THEN job ELSE mem[i]]

createJobSheet(sh, mem, id, url, email, ok) ==
    LET job == [id |-> Lit(id), url |-> url, email |-> email,
                status |-> Lit("submitted"),
                created_at |-> ISODate(now), completed_at |-> Null,
                lighthouse_before |-> Null, lighthouse_after |-> Null,
                netlify_url |-> Null, notes |-> Null]
    IN  IF SheetConfigured
        THEN IF ok[1]
             THEN Stored(AppendRow(sh, <<job.id, job.url, job.email, job.status,
                                         job.created_at, job.completed_at,
                                         job.lighthouse_before, job.lighthouse_after,
                                         job.netlify_url, job.notes>>), mem)
             ELSE Stored(sh, MemSet(mem, id, job))
        ELSE Stored(sh, MemSet(mem, id, job))

\* [...memoryJobs.values()] of the fallback Map
MemValues(mem) == [i \in 1..Cardinality(DOMAIN mem) |-> mem[InsertionOrder(DOMAIN mem)[i]]]

getPendingJobsSheet(sh, mem, ok) ==
    LET rows == SelectSeq(sh, LAMBDA row : row[4] = Lit("submitted"))
        fallback == SelectSeq(MemValues(mem), LAMBDA j : j.status = Lit("submitted"))
    IN  IF SheetConfigured /\ ok[1]
        THEN IF sh = <<>> THEN <<>>
             ELSE IF \E i \in 1..Len(rows) : RowThrows(rows[i]) THEN fallback
             ELSE [i \in 1..Len(rows) |-> RowToJob(rows[i])]
        ELSE fallback

getAllJobsSheet(sh, mem, ok) ==
    IF SheetConfigured /\ ok[1]
    THEN IF sh = <<>> THEN <<>>
         ELSE IF \E i \in 1..Len(sh) : RowThrows(sh[i]) THEN MemValues(mem)
         ELSE [i \in 1..Len(sh) |-> RowToJob(sh[i])]
    ELSE MemValues(mem)

getJobByIdSheet(sh, mem, id, ok) ==
    LET r == FindIndex(sh, id)
        fallback == IF id \in DOMAIN mem THEN mem[id] ELSE Null
    IN  IF SheetConfigured /\ ok[1]
        THEN IF sh = <<>> THEN Null
             ELSE IF r = 0 THEN Null
             ELSE IF RowThrows(sh[r]) THEN fallback
             ELSE RowToJob(sh[r])
        ELSE fallback

\* the find-the-row-then-PUT pattern of the four mutators: col and values
\* are the PUT, memWrite the fallback on the Map
PutOrFallback(sh, mem, id, col, values, memWrite, ok) ==
    LET r == FindIndex(sh, id)
    IN  IF SheetConfigured /\ ok[1]
        THEN IF sh = <<>> THEN Stored(sh, mem)
             ELSE IF r = 0 THEN Stored(sh, mem)
             ELSE IF ok[2] THEN Stored(PutCells(sh, r, col, values), mem)
             ELSE Stored(sh, memWrite)
        ELSE Stored(sh, memWrite)

updateJobStatusSheet(sh, mem, id, status, ok) ==
    PutOrFallback(sh, mem, id, 4, <<status>>,
                  IF id \in DOMAIN mem THEN [mem EXCEPT ![id].status = status] ELSE mem, ok)

saveLighthouseBeforeSheet(sh, mem, id, scores, ok) ==
    PutOrFallback(sh, mem, id, 7,
                  << IF scores = Undefined THEN Undefined ELSE JSONCell(scores) >>,
                  IF id \in DOMAIN mem THEN [mem EXCEPT ![id].lighthouse_before = scores]
                  ELSE mem, ok)

saveLighthouseAfterSheet(sh, mem, id, scores, ok) ==
    PutOrFallback(sh, mem, id, 8,
                  << IF scores = Undefined THEN Undefined ELSE JSONCell(scores) >>,
                  IF id \in DOMAIN mem THEN [mem EXCEPT ![id].lighthouse_after = scores]
                  ELSE mem, ok)

\* the PUT of completeJob goes to D..J and carries six values:
\* 'completed', the time, null, null, netlifyUrl, notes
completeJobSheet(sh, mem, id, netlifyUrl, notes, ok) ==
    PutOrFallback(sh, mem, id, 4,
                  <<Lit("completed"), ISODate(now), Null, Null, netlifyUrl, notes>>,
                  IF id \in DOMAIN mem
                  THEN [mem EXCEPT ![id].status = Lit("completed"),
                                   ![id].completed_at = ISODate(now),
                                   ![id].netlify_url = netlifyUrl,
                                   ![id].notes = notes]
                  ELSE mem, ok)

---------------------------------------------------------------------------
(* Handlers of the second variant (the same routes, registered in the same *)
(* order).  ok[i] is the outcome of the i-th sheetsRequest slot of the     *)
(* handler.                                                                *)

\* the most sheetsRequest calls one handler makes (complete: getJobById,
\* completeJob's two, getJobById)
SheetCallsPerRequest == 4

ReplySheet(st, created, status, body) ==
    [sheet |-> st.sheet, mem |-> st.mem, created |-> created, mail |-> NoMail,
     status |-> status, body |-> body]

ErrorSheet(status, message) ==
    ReplySheet(Stored(sheet, memoryJobs), FALSE, status, [error |-> message])

submitJobSheet(r, ok) ==
    LET url   == Field(r.body, "url")
        email == Field(r.body, "email")
    IN  IF ~Truthy(url) \/ ~Truthy(email) THEN ErrorSheet(400, "URL and email required")
        ELSE IF ~URLParses(url.v) THEN ErrorSheet(400, "Invalid URL")
        ELSE IF ~emailRegexTest(email.v) THEN ErrorSheet(400, "Invalid email")
        ELSE ReplySheet(createJobSheet(sheet, memoryJobs, uuidv4, url, email, ok), TRUE, 200,
                        [success |-> TRUE, message |-> "Job submitted!",
                         jobId |-> Lit(uuidv4)])

checkJobStatusSheet(r, ok) ==
    LET job == getJobByIdSheet(sheet, memoryJobs, r.path[3], ok)
    IN  IF ~Truthy(job) THEN ErrorSheet(404, "Job not found")
        ELSE ReplySheet(Stored(sheet, memoryJobs), FALSE, 200, job)

pendingJobsSheet(r, ok) ==
    ReplySheet(Stored(sheet, memoryJobs), FALSE, 200,
               getPendingJobsSheet(sheet, memoryJobs, ok))

allJobsSheet(r, ok) ==
    ReplySheet(Stored(sheet, memoryJobs), FALSE, 200, getAllJobsSheet(sheet, memoryJobs, ok))

lighthouseBeforeSheet(r, ok) ==
    LET id     == r.path[3]
        scores == Field(r.body, "scores")
        st1    == updateJobStatusSheet(sheet, memoryJobs, id, Lit("processing"), ok)
        st2    == saveLighthouseBeforeSheet(st1.sheet, st1.mem, id, scores, <<ok[3], ok[4]>>)
    IN  ReplySheet(st2, FALSE, 200, [success |-> TRUE])

lighthouseAfterSheet(r, ok) ==
    LET id     == r.path[3]
        scores == Field(r.body, "scores")
    IN  ReplySheet(saveLighthouseAfterSheet(sheet, memoryJobs, id, scores, ok), FALSE, 200,
                   [success |-> TRUE])

completeJobRouteSheet(r, ok, sendMailOk) ==
    LET id         == r.path[3]
        netlifyUrl == Field(r.body, "netlifyUrl")
        notes      == Field(r.body, "notes")
        job        == getJobByIdSheet(sheet, memoryJobs, id, ok)
        st1        == completeJobSheet(sheet, memoryJobs, id, netlifyUrl, notes,
                                       <<ok[2], ok[3]>>)
        updatedJob == getJobByIdSheet(st1.sheet, st1.mem, id, <<ok[4]>>)
        emailResult == sendCompletionEmail(updatedJob, sendMailOk)
    IN  IF ~Truthy(netlifyUrl) THEN ErrorSheet(400, "netlifyUrl required")
        ELSE IF ~Truthy(job) THEN ErrorSheet(404, "Job not found")
        ELSE IF emailResult.threw
             THEN [ReplySheet(st1, FALSE, 500, [error |-> "thrown in sendCompletionEmail"])
                       EXCEPT !.mail = emailResult.mail]
        ELSE [ReplySheet(st1, FALSE, 200,
                         [success |-> TRUE, emailSent |-> emailResult.success,
                          job |-> updatedJob])
                  EXCEPT !.mail = emailResult.mail]

RespondSheet(r, ok, sendMailOk) ==
    LET route == MatchRoute(r)
        h == route.handler
    IN  IF h = "none" THEN ErrorSheet(404, "Cannot " \o r.method)
        ELSE IF route.auth /\ ~requireAdminAuth(r.key) THEN ErrorSheet(401, "Unauthorized")
        ELSE CASE h = "submitJob"        -> submitJobSheet(r, ok)
               [] h = "checkJobStatus"   -> checkJobStatusSheet(r, ok)
               [] h = "pendingJobs"      -> pendingJobsSheet(r, ok)
               [] h = "allJobs"          -> allJobsSheet(r, ok)
               [] h = "lighthouseBefore" -> lighthouseBeforeSheet(r, ok)
               [] h = "lighthouseAfter"  -> lighthouseAfterSheet(r, ok)
               [] h = "completeJob"      -> completeJobRouteSheet(r, ok, sendMailOk)

---------------------------------------------------------------------------
(* The second variant as a state machine *)

\* every kind of request on the first job; the other jobs are created and read
SheetRequests ==
    {Req("POST", <<"api", "jobs">>, Undefined, b) :
        b \in {[url |-> UrlGood, email |-> EmailGood], [url |-> UrlGood, email |-> EmailNot]}}
    \cup {Req("GET", <<"api", "jobs", id>>, Undefined, EmptyObject) : id \in RequestIds}
    \cup {Req("GET", <<"api", "jobs", "pending">>, GoodKey, EmptyObject)}
    \cup {Req("POST", <<"api", "jobs", FirstId, "lighthouse-before">>, k, [scores |-> S1]) :
            k \in {GoodKey, Undefined}}
    \cup {Req("POST", <<"api", "jobs", FirstId, "lighthouse-after">>, GoodKey, [scores |-> S2])}
    \cup {Req("POST", <<"api", "jobs", FirstId, "complete">>, GoodKey,
              [netlifyUrl |-> U1, notes |-> N1])}

\* the sheetsRequest slots a handler uses; the others are left TRUE
SlotsUsed(r) ==
    LET h == MatchRoute(r).handler
    IN  CASE h \in {"submitJob", "checkJobStatus", "pendingJobs", "allJobs"} -> {1}
          [] h = "lighthouseAfter" -> {1, 2}
          [] h \in {"lighthouseBefore", "completeJob"} -> 1..SheetCallsPerRequest
          [] OTHER -> {}

SheetOutcomes(r) ==
    {ok \in [1..SheetCallsPerRequest -> BOOLEAN] :
        \A i \in 1..SheetCallsPerRequest : i \notin SlotsUsed(r) => ok[i]}

\* one HTTP request of the second variant, from arrival to response
RequestSheet(r, ok, sendMailOk) ==
    \E o \in {RespondSheet(r, ok, sendMailOk)} :
        /\ o.created => uuidCount < MaxJobs
        /\ sheet' = o.sheet
        /\ memoryJobs' = o.mem
        /\ uuidCount' = IF o.created THEN uuidCount + 1 ELSE uuidCount
        /\ last' = [req |-> r, handler |-> MatchRoute(r).handler,
                    status |-> o.status, body |-> o.body, mail |-> o.mail]
        /\ UNCHANGED <<disk, now, adminKey, calls, limits>>

NextSheet ==
    \/ \E r \in SheetRequests : \E ok \in SheetOutcomes(r) : \E sendMailOk \in MailOutcomes(r) :
          RequestSheet(r, ok, sendMailOk)
    \/ Tick

SpecSheet == Init /\ [][NextSheet]_vars

---------------------------------------------------------------------------
(* The first variant with restarts of the process between requests *)

Restarted == [NoRequest EXCEPT !.handler = "restart"]

\* the process ends and starts again: loadDatabase().then(() => app.listen(...))
Restart ==
    /\ memoryJobs' = loadDatabase(disk)
    /\ last' = Restarted
    /\ UNCHANGED <<disk, sheet, uuidCount, now, adminKey, calls>>
    /\ limits' = NoHits

\* every operation on every job, with the admin key
RestartRequests ==
    {Req("POST", <<"api", "jobs">>, Undefined, [url |-> UrlGood, email |-> EmailGood])}
    \cup {Req("GET", <<"api", "jobs", id>>, Undefined, EmptyObject) : id \in RequestIds}
    \cup {Req("POST", <<"api", "jobs", id, "lighthouse-before">>, GoodKey, [scores |-> S1]) :
            id \in RequestIds}
    \cup {Req("POST", <<"api", "jobs", FirstId, "lighthouse-after">>, GoodKey, b) :
            b \in {[scores |-> S2], EmptyObject}}
    \cup {Req("POST", <<"api", "jobs", id, "complete">>, GoodKey,
              [netlifyUrl |-> U1, notes |-> N1]) : id \in RequestIds}
    \cup {Req("POST", <<"api", "jobs", FirstId, "complete">>, GoodKey, [netlifyUrl |-> U2])}

NextRestart ==
    \/ \E r \in RestartRequests : \E sendMailOk \in MailOutcomes(r) : Request(r, sendMailOk)
    \/ Tick
    \/ Restart

SpecRestart == Init /\ [][NextRestart]_vars

---------------------------------------------------------------------------
(* The completion e-mail over every pair of score records: the first       *)
(* variant with one job whose scores were recorded, completed by the admin *)

\* a score field never written, a record without performance, and every
\* integer performance
ScoreInputs ==
    {Null, Scores(EmptyObject)} \cup {Scores([performance |-> p]) : p \in 0..MaxPerformance}

\* the store after createJob and the lighthouse calls that recorded before
\* and after (no call for a field still null)
ScoredStore(before, after) ==
    LET j0 == createJob([id \in {} |-> EmptyObject], FirstId, UrlGood, EmailGood)
        j1 == IF before = Null THEN j0
              ELSE saveLighthouseBefore(updateJobStatus(j0, FirstId, Lit("processing")),
                                        FirstId, before)
    IN  IF after = Null THEN j1 ELSE saveLighthouseAfter(j1, FirstId, after)

InitMail ==
    /\ now = 0
    /\ memoryJobs \in {ScoredStore(before, after) : before \in ScoreInputs, after \in ScoreInputs}
    /\ disk = saveDatabase(memoryJobs)
    /\ sheet = <<>>
    /\ uuidCount = 1
    /\ adminKey = GoodKey
    /\ last = NoRequest
    /\ calls = <<>>
    /\ limits = NoHits

CompleteFirst ==
    Req("POST", <<"api", "jobs", FirstId, "complete">>, GoodKey, [netlifyUrl |-> U1])

NextMail == \E sendMailOk \in MailOutcomes(CompleteFirst) : Request(CompleteFirst, sendMailOk)

SpecMail == InitMail /\ [][NextMail]_vars

---------------------------------------------------------------------------
(* The first variant behind its two rate limiters, one client *)

\* rateLimit({ windowMs: 15 * 60 * 1000, max: 100 }) on '/api/'
ApiMax == 100
\* rateLimit({ windowMs: 60 * 60 * 1000, max: 3 }) on '/api/jobs'
JobMax == 3

\* app.use(prefix, ...) runs for every request whose path starts with prefix
Mounted(prefix, r) == Len(r.path) >= Len(prefix) /\ SubSeq(r.path, 1, Len(prefix)) = prefix

\* a limiter answers 429 with its message and no route runs
Limited(r, by, message) ==
    /\ last' = [req |-> r, handler |-> by, status |-> 429, body |-> [error |-> message],
                mail |-> NoMail]
    /\ UNCHANGED <<memoryJobs, disk, sheet, uuidCount, now, adminKey, calls>>

\* one HTTP request through limiter, then jobLimiter, then the routes: each
\* limiter counts the request and rejects it when the count exceeds max.
\* A window that has rejected a request takes no more requests in the model.
LimitedRequest(r, sendMailOk) ==
    /\ limits.api <= ApiMax /\ limits.jobs <= JobMax
    /\ Mounted(<<"api">>, r)
    /\ IF limits.api + 1 > ApiMax
       THEN /\ limits' = [limits EXCEPT !.api = @ + 1]
            /\ Limited(r, "limiter", "Too many requests")
       ELSE IF Mounted(<<"api", "jobs">>, r)
       THEN /\ limits' = [api |-> limits.api + 1, jobs |-> limits.jobs + 1]
            /\ IF limits.jobs + 1 > JobMax
               THEN Limited(r, "jobLimiter", "Max 3 jobs per hour")
               ELSE Handle(r, sendMailOk)
       ELSE /\ limits' = [limits EXCEPT !.api = @ + 1]
            /\ Handle(r, sendMailOk)

\* the 15 minutes of limiter's window are over
ApiWindowExpires ==
    /\ limits.api > 0
    /\ limits' = [limits EXCEPT !.api = 0]
    /\ UNCHANGED <<memoryJobs, disk, sheet, uuidCount, now, adminKey, last, calls>>

\* the hour of jobLimiter's window is over
JobWindowExpires ==
    /\ limits.jobs > 0
    /\ limits' = [limits EXCEPT !.jobs = 0]
    /\ UNCHANGED <<memoryJobs, disk, sheet, uuidCount, now, adminKey, last, calls>>

\* a submission, a status lookup, the pending poll and an admin call
LimitedRequests ==
    {Req("POST", <<"api", "jobs">>, Undefined, [url |-> UrlGood, email |-> EmailGood]),
     Req("GET", <<"api", "jobs", FirstId>>, Undefined, EmptyObject),
     Req("GET", <<"api", "jobs", "pending">>, GoodKey, EmptyObject),
     Req("POST", <<"api", "jobs", FirstId, "lighthouse-before">>, GoodKey, [scores |-> S1])}

NextLimited ==
    \/ \E r \in LimitedRequests : \E sendMailOk \in MailOutcomes(r) :
          LimitedRequest(r, sendMailOk)
    \/ ApiWindowExpires
    \/ JobWindowExpires

SpecLimited == Init /\ [][NextLimited]_vars

---------------------------------------------------------------------------
(* The admin handlers of the first variant, await by await.  A handler     *)
(* runs without interruption up to an await of fs.writeFile or of sendMail *)
(* (an await of getJobById or of a store function that saves nothing       *)
(* resumes before any other request is served).  saveDatabase serializes   *)
(* the Map when it is called; the writes of different handlers are in      *)
(* flight together and reach the file in the order they finish.            *)

\* a call: its request, where its handler stands, the text its pending
\* writeFile carries, the job handed to sendCompletionEmail, the response
Call(r, pc, writing, dispatched, status, body, mail) ==
    [req |-> r, pc |-> pc, writing |-> writing, dispatched |-> dispatched,
     status |-> status, body |-> body, mail |-> mail]

Saving(r, pc, jobs) == Call(r, pc, saveDatabase(jobs), Null, 0, EmptyObject, NoMail)

Done(r, status, body) == Call(r, "done", NoFile, Null, status, body, NoMail)

InFlight == {i \in DOMAIN calls : calls[i].pc # "done"}

\* the handler from the arrival of the request to its first await
Started(r) ==
    LET h  == MatchRoute(r).handler
        id == r.path[3]
        found == id \in DOMAIN memoryJobs
    IN  CASE ~requireAdminAuth(r.key) ->
               [jobs |-> memoryJobs, call |-> Done(r, 401, [error |-> "Unauthorized"])]
          [] requireAdminAuth(r.key) /\ h = "lighthouseBefore" /\ found ->
               LET jobs1 == updateJobStatus(memoryJobs, id, Lit("processing"))
               IN  [jobs |-> jobs1, call |-> Saving(r, "updateJobStatus", jobs1)]
          [] requireAdminAuth(r.key) /\ h = "lighthouseAfter" /\ found ->
               LET jobs1 == saveLighthouseAfter(memoryJobs, id, Field(r.body, "scores"))
               IN  [jobs |-> jobs1, call |-> Saving(r, "saveLighthouseAfter", jobs1)]
          [] requireAdminAuth(r.key) /\ h \in {"lighthouseBefore", "lighthouseAfter"} /\ ~found ->
               [jobs |-> memoryJobs, call |-> Done(r, 200, [success |-> TRUE])]
          [] requireAdminAuth(r.key) /\ h = "completeJob" ->
               IF ~Truthy(Field(r.body, "netlifyUrl"))
               THEN [jobs |-> memoryJobs, call |-> Done(r, 400, [error |-> "netlifyUrl required"])]
               ELSE IF ~found
               THEN [jobs |-> memoryJobs, call |-> Done(r, 404, [error |-> "Job not found"])]
               ELSE LET jobs1 == completeJob(memoryJobs, id, Field(r.body, "netlifyUrl"),
                                             Field(r.body, "notes"))
                    IN  [jobs |-> jobs1, call |-> Saving(r, "completeJob", jobs1)]

\* a request arrives and its handler runs to its first await
Arrive(r) ==
    /\ Len(calls) < MaxCalls
    /\ \E o \in {Started(r)} :
          /\ memoryJobs' = o.jobs
          /\ calls' = Append(calls, o.call)
    /\ UNCHANGED <<disk, sheet, uuidCount, now, adminKey, last, limits>>

\* the handler from the end of its writeFile to its next await or its response
Resumed(c) ==
    LET id == c.req.path[3]
    IN  CASE c.pc = "updateJobStatus" ->
               LET jobs1 == saveLighthouseBefore(memoryJobs, id, Field(c.req.body, "scores"))
               IN  [jobs |-> jobs1,
                    call |-> IF id \in DOMAIN memoryJobs
                             THEN Saving(c.req, "saveLighthouseBefore", jobs1)
                             ELSE Done(c.req, 200, [success |-> TRUE])]
          [] c.pc \in {"saveLighthouseBefore", "saveLighthouseAfter"} ->
               [jobs |-> memoryJobs, call |-> Done(c.req, 200, [success |-> TRUE])]
          [] c.pc = "completeJob" ->
               [jobs |-> memoryJobs,
                call |-> Call(c.req, "sendMail", NoFile, getJobById(memoryJobs, id),
                              0, EmptyObject, NoMail)]

\* a writeFile finishes: the file holds its text and its handler goes on
WriteDone(i) ==
    /\ calls[i].pc \in {"updateJobStatus", "saveLighthouseBefore", "saveLighthouseAfter",
                        "completeJob"}
    /\ disk' = calls[i].writing
    /\ \E o \in {Resumed(calls[i])} :
          /\ memoryJobs' = o.jobs
          /\ calls' = [calls EXCEPT ![i] = o.call]
    /\ UNCHANGED <<sheet, uuidCount, now, adminKey, last, limits>>

\* sendMail settles: res.json serializes the job object as it is by then
MailDone(i, sendMailOk) ==
    /\ calls[i].pc = "sendMail"
    /\ \E e \in {sendCompletionEmail(calls[i].dispatched, sendMailOk)} :
          calls' = [calls EXCEPT ![i] =
              Call(calls[i].req, "done", NoFile, calls[i].dispatched, 200,
                   [success |-> TRUE, emailSent |-> e.success,
                    job |-> getJobById(memoryJobs, calls[i].req.path[3])],
                   e.mail)]
    /\ UNCHANGED <<memoryJobs, disk, sheet, uuidCount, now, adminKey, last, limits>>

\* admin requests on the jobs of the store
AsyncRequests ==
    {Req("POST", <<"api", "jobs", id, "lighthouse-before">>, GoodKey, [scores |-> S1]) :
        id \in RequestIds}
    \cup {Req("POST", <<"api", "jobs", id, "lighthouse-after">>, GoodKey, [scores |-> S2]) :
        id \in RequestIds}
    \cup {Req("POST", <<"api", "jobs", id, "complete">>, GoodKey,
              [netlifyUrl |-> U1, notes |-> N1]) : id \in RequestIds}
    \cup {Req("POST", <<"api", "jobs", FirstId, "complete">>, GoodKey, [netlifyUrl |-> U2])}

\* the store after MaxJobs submissions, nothing in flight
InitAsync ==
    /\ now = 0
    /\ memoryJobs = [id \in RequestIds |->
                        createJob([i \in {} |-> EmptyObject], id, UrlGood, EmailGood)[id]]
    /\ disk = saveDatabase(memoryJobs)
    /\ sheet = <<>>
    /\ uuidCount = MaxJobs
    /\ adminKey = GoodKey
    /\ last = NoRequest
    /\ calls = <<>>
    /\ limits = NoHits

NextAsync ==
    \/ \E r \in AsyncRequests : Arrive(r)
    \/ \E i \in DOMAIN calls : WriteDone(i)
    \/ \E i \in DOMAIN calls : \E sendMailOk \in BOOLEAN : MailDone(i, sendMailOk)

SpecAsync == InitAsync /\ [][NextAsync]_vars

\* a request for a job no handler in flight is working on
ArriveDistinct(r) ==
    /\ \A i \in InFlight : calls[i].req.path[3] # r.path[3]
    /\ Arrive(r)

NextAsyncDistinct ==
    \/ \E r \in AsyncRequests : ArriveDistinct(r)
    \/ \E i \in DOMAIN calls : WriteDone(i)
    \/ \E i \in DOMAIN calls : \E sendMailOk \in BOOLEAN : MailDone(i, sendMailOk)

SpecAsyncDistinct == InitAsync /\ [][NextAsyncDistinct]_vars

---------------------------------------------------------------------------
(* Vocabulary of the properties *)

StatusRank(status) ==
    CASE status = Lit("submitted")  -> 1
      [] status = Lit("processing") -> 2
      [] status = Lit("completed")  -> 3

\* the step handles a request (every action but Tick does, and sets last)
RequestStep == now' = now

Answered(handler, status) == last.handler = handler /\ last.status = status

\* the id a request names in /api/jobs/:id...
ParamId(r) == r.path[3]

\* the endpoint a request is addressed to, by the README's table of endpoints
Endpoint(r) ==
    CASE r.method = "POST" /\ r.path = <<"api", "jobs">> -> "POST /api/jobs"
      [] r.method = "GET" /\ r.path = <<"api", "jobs", "pending">> -> "GET /api/jobs/pending"
      [] r.method = "GET" /\ r.path = <<"api", "jobs", "all">> -> "GET /api/jobs/all"
      [] r.method = "GET" /\ Len(r.path) = 3 -> "GET /api/jobs/:id"
      [] r.method = "POST" /\ Len(r.path) = 4 -> "POST /api/jobs/:id/" \o r.path[4]
      [] OTHER -> "none"

AdminEndpoints ==
    {"GET /api/jobs/pending", "GET /api/jobs/all", "POST /api/jobs/:id/lighthouse-before",
     "POST /api/jobs/:id/lighthouse-after", "POST /api/jobs/:id/complete"}

\* the X-API-Key header is absent or differs from the configured key
KeyAbsentOrWrong(r) == r.key = Undefined \/ r.key # adminKey

---------------------------------------------------------------------------
(* C1: a job's stored status only ever moves forward,                      *)
(* submitted < processing < completed, over every sequence of requests.    *)
(* Stated as written; lighthouse-before on a completed job refutes it.     *)
C1_StatusOnlyForward ==
    [][\A id \in DOMAIN memoryJobs :
          StatusRank(memoryJobs'[id].status) >= StatusRank(memoryJobs[id].status)]_vars

(* C2: completed_at and netlify_url are written once: after the first      *)
(* successful complete call no later request changes them.  Stated as      *)
(* written; a second complete call refutes it.                             *)
C2_CompletionWrittenOnce ==
    [][\A id \in DOMAIN memoryJobs :
          memoryJobs[id].completed_at # Null =>
              /\ memoryJobs'[id].completed_at = memoryJobs[id].completed_at
              /\ memoryJobs'[id].netlify_url = memoryJobs[id].netlify_url]_vars

(* C3: every endpoint other than job creation and status lookup answers    *)
(* 401 and leaves the store unchanged when X-API-Key is absent or wrong.   *)
(* Stated as written; GET /api/jobs/pending without a key refutes it.      *)
C3_AdminEndpoints401 ==
    [][(RequestStep /\ Endpoint(last'.req) \in AdminEndpoints /\ KeyAbsentOrWrong(last'.req))
          => (last'.status = 401 /\ UNCHANGED <<memoryJobs, disk>>)]_vars

(* C4: GET /api/jobs/pending with the correct admin key is answered by the *)
(* pending-jobs handler with the submitted jobs, GET /api/jobs/all by the  *)
(* all-jobs handler with all jobs, never by another route.  Stated as      *)
(* written; the status-lookup route answering first refutes it.            *)
C4_PendingAnsweredByPendingHandler ==
    /\ (Endpoint(last.req) = "GET /api/jobs/pending" /\ requireAdminAuth(last.req.key))
          => (Answered("pendingJobs", 200) /\ last.body = getPendingJobs(memoryJobs))
    /\ (Endpoint(last.req) = "GET /api/jobs/all" /\ requireAdminAuth(last.req.key))
          => (Answered("allJobs", 200) /\ last.body = getAllJobs(memoryJobs))

\* the inputs of the requests, sorted by what the API documents as well-formed
MalformedUrls   == {UrlNotUrl, UrlNoHost, Str(<<>>), Undefined}
MalformedEmails == {EmailNot, EmailNoTld, EmailSpace, Str(<<>>), Undefined}
WellFormedUrls   == {UrlGood}
WellFormedEmails == {EmailGood}

IsCreate(r) == Endpoint(r) = "POST /api/jobs"
IsAdminPost(r, what) ==
    /\ Endpoint(r) = "POST /api/jobs/:id/" \o what
    /\ requireAdminAuth(r.key)

(* C5: for an existing job, an admin lighthouse-before call with scores S  *)
(* followed by an admin complete call with netlifyUrl U and notes N leaves *)
(* the job, read back by id, with status completed, completed_at set,      *)
(* netlify_url = U, notes = N and lighthouse_before = S.                   *)
C5_BeforeThenComplete ==
    [][\A id \in DOMAIN memoryJobs :
          ( /\ RequestStep
            /\ IsAdminPost(last.req, "lighthouse-before") /\ ParamId(last.req) = id
            /\ IsAdminPost(last'.req, "complete") /\ ParamId(last'.req) = id
            /\ Truthy(Field(last'.req.body, "netlifyUrl")) )
          => LET job == getJobById(memoryJobs', id)
             IN  /\ last'.status = 200
                 /\ job.status = Lit("completed")
                 /\ job.completed_at # Null
                 /\ job.netlify_url = Field(last'.req.body, "netlifyUrl")
                 /\ job.notes = Field(last'.req.body, "notes")
                 /\ job.lighthouse_before = Field(last.req.body, "scores")]_vars

\* complete has just succeeded on a job whose before-scores were recorded
C5_Witness ==
    /\ Answered("completeJob", 200)
    /\ ParamId(last.req) \in DOMAIN memoryJobs
    /\ memoryJobs[ParamId(last.req)].lighthouse_before = S2
    /\ memoryJobs[ParamId(last.req)].netlify_url = U2

(* C6: creating a job with a well-formed url and email adds exactly one    *)
(* record, under an id no existing job has, with the given url and email,  *)
(* status submitted and every optional field null; every other record is   *)
(* unchanged and the response carries the new id.                          *)
C6_CreateAddsOneRecord ==
    [][( /\ RequestStep /\ IsCreate(last'.req)
         /\ Field(last'.req.body, "url") \in WellFormedUrls
         /\ Field(last'.req.body, "email") \in WellFormedEmails )
       => \E id \in DOMAIN memoryJobs' \ DOMAIN memoryJobs :
             /\ DOMAIN memoryJobs' = DOMAIN memoryJobs \cup {id}
             /\ \A other \in DOMAIN memoryJobs : memoryJobs'[other] = memoryJobs[other]
             /\ memoryJobs'[id].id = Lit(id)
             /\ memoryJobs'[id].url = last'.req.body.url
             /\ memoryJobs'[id].email = last'.req.body.email
             /\ memoryJobs'[id].status = Lit("submitted")
             /\ \A k \in {"completed_at", "lighthouse_before", "lighthouse_after",
                          "netlify_url", "notes"} : memoryJobs'[id][k] = Null
             /\ last'.status = 200
             /\ last'.body.jobId = Lit(id)]_vars

\* a second job has just been created beside a first that is already completed
C6_Witness ==
    /\ Answered("submitJob", 200)
    /\ Cardinality(DOMAIN memoryJobs) = 2
    /\ \E id \in DOMAIN memoryJobs : memoryJobs[id].status = Lit("completed")

(* C7: a creation request whose url is missing or malformed, or whose      *)
(* email is missing or malformed, is answered 400 and leaves the in-memory *)
(* store and the persisted store as they were.                             *)
C7_InvalidCreateRejected ==
    [][( /\ RequestStep /\ IsCreate(last'.req)
         /\ \/ Field(last'.req.body, "url") \in MalformedUrls
            \/ Field(last'.req.body, "email") \in MalformedEmails )
       => (last'.status = 400 /\ UNCHANGED <<memoryJobs, disk>>)]_vars

\* "not-an-email" has just been refused while the store holds a job
C7_Witness ==
    /\ Answered("submitJob", 400)
    /\ Field(last.req.body, "email") = EmailNot
    /\ DOMAIN memoryJobs # {}
    /\ disk = saveDatabase(memoryJobs)

(* C8: every request addressed to a job id that is not in the store (GET   *)
(* /api/jobs/:id, and the admin POST lighthouse-before, lighthouse-after   *)
(* and complete with a valid body) is answered 404 and leaves the store    *)
(* unchanged.  Stated as written; lighthouse-before on an unknown id       *)
(* refutes it.                                                             *)
C8_UnknownId404 ==
    [][( /\ RequestStep
         /\ \/ Endpoint(last'.req) = "GET /api/jobs/:id"
            \/ IsAdminPost(last'.req, "lighthouse-before")
            \/ IsAdminPost(last'.req, "lighthouse-after")
            \/ (IsAdminPost(last'.req, "complete")
                  /\ Truthy(Field(last'.req.body, "netlifyUrl")))
         /\ ParamId(last'.req) \notin DOMAIN memoryJobs )
       => (last'.status = 404 /\ UNCHANGED <<memoryJobs, disk>>)]_vars

\* the ids of the jobs the store holds with status submitted: the rows of the
\* sheet and the entries of the fallback Map
SubmittedInStore ==
    {sheet[r][1] : r \in {q \in 1..Len(sheet) : sheet[q][4] = Lit("submitted")}}
    \cup {memoryJobs[id].id : id \in {i \in DOMAIN memoryJobs :
                                          memoryJobs[i].status = Lit("submitted")}}

(* C9: in every reachable state getPendingJobs returns exactly the jobs of *)
(* the store whose status is submitted, none with another status and none *)
(* left out, however its read of the sheet ends.  Stated as written for    *)
(* the spreadsheet variant; a job created while the append failed lives in *)
(* the fallback Map only and is left out when the read succeeds.           *)
C9_PendingIsExactlySubmitted ==
    \A ok \in [1..1 -> BOOLEAN] :
        LET returned == getPendingJobsSheet(sheet, memoryJobs, ok)
        IN  /\ \A i \in DOMAIN returned : returned[i].status = Lit("submitted")
            /\ {returned[i].id : i \in DOMAIN returned} = SubmittedInStore

(* C10: when sendMail fails during a complete call on an existing job the  *)
(* completion stays: the stored job is completed with completed_at,        *)
(* netlify_url and notes set, and the response is a success with           *)
(* emailSent = false, not an error.                                        *)
C10_MailFailureKeepsCompletion ==
    (last.mail.attempted /\ ~last.mail.delivered) =>
        LET id == ParamId(last.req)
        IN  /\ last.status = 200
            /\ last.body.success = TRUE
            /\ last.body.emailSent = FALSE
            /\ id \in DOMAIN memoryJobs
            /\ memoryJobs[id].status = Lit("completed")
            /\ memoryJobs[id].completed_at # Null
            /\ memoryJobs[id].netlify_url = Field(last.req.body, "netlifyUrl")
            /\ memoryJobs[id].notes = Field(last.req.body, "notes")
            /\ disk = saveDatabase(memoryJobs)

\* a complete call whose mail was not delivered
C10_Witness ==
    /\ last.handler = "completeJob"
    /\ last.mail.attempted /\ ~last.mail.delivered
    /\ last.body.emailSent = FALSE

\* the record holds a performance score
HasPerformance(scores) == scores # Null /\ "performance" \in DOMAIN scores.f

(* C11: for every pair of before/after score records with an integer       *)
(* performance in 0..100 or none, the completion e-mail shows a delta if   *)
(* and only if both records hold a performance, and the delta shown is     *)
(* after.performance - before.performance.  Stated as written; a           *)
(* performance of 0 is read as absent and refutes it.                      *)
C11_DeltaIffBothPresent ==
    last.mail.attempted =>
        LET job    == memoryJobs[ParamId(last.req)]
            before == job.lighthouse_before
            after  == job.lighthouse_after
        IN  /\ (last.mail.delta # Null) <=> (HasPerformance(before) /\ HasPerformance(after))
            /\ (HasPerformance(before) /\ HasPerformance(after))
                  => last.mail.delta = Num(after.f.performance - before.f.performance)

(* C12: when no admin key is configured, every request to an admin-gated   *)
(* endpoint is answered 401 whatever X-API-Key it carries, and no admin    *)
(* handler runs (the store stays as it was).  Stated as written; the two   *)
(* GET endpoints are answered 404 by the status-lookup route.              *)
C12_NoAdminKeyAlways401 ==
    [][(RequestStep /\ ~Truthy(adminKey) /\ Endpoint(last'.req) \in AdminEndpoints)
          => (last'.status = 401 /\ UNCHANGED <<memoryJobs, disk>>)]_vars

\* the job field a lighthouse endpoint writes
ScoreField(what) ==
    IF what = "lighthouse-before" THEN "lighthouse_before" ELSE "lighthouse_after"

ReachesStore(r) ==
    CASE Endpoint(r) = "POST /api/jobs" ->
            Field(r.body, "url") \in WellFormedUrls /\ Field(r.body, "email") \in WellFormedEmails
      [] MatchRoute(r).handler = "checkJobStatus" -> TRUE
      [] Endpoint(r) \in {"POST /api/jobs/:id/lighthouse-before",
                          "POST /api/jobs/:id/lighthouse-after"} -> requireAdminAuth(r.key)
      [] Endpoint(r) = "POST /api/jobs/:id/complete" ->
            requireAdminAuth(r.key) /\ Truthy(Field(r.body, "netlifyUrl"))
      [] OTHER -> FALSE

(* C14: with the spreadsheet configured, a request whose handler has a     *)
(* spreadsheet request fail is answered 500, and the failure is never      *)
(* turned into a success or a write to the in-memory Map.  Stated for the  *)
(* first spreadsheet request of the handler, in every reachable state;     *)
(* job creation answering 200 and storing the job in the Map refutes it.   *)
C14_BackendFailureSurfaced ==
    \A r \in SheetRequests : \A ok \in SheetOutcomes(r) :
        (SheetConfigured /\ ReachesStore(r) /\ ~ok[1])
            => LET o == RespondSheet(r, ok, TRUE)
               IN  o.status = 500 /\ o.mem = memoryJobs

\* the cells and fields that identify a job: id, url, email, created_at
IdentityCells == {1, 2, 3, 5}
IdentityFields == {"id", "url", "email", "created_at"}

(* C15: in every storage variant, the id, url, email and created_at stored *)
(* for a job stay the values assigned at creation over every request, and  *)
(* no two stored jobs share an id.  Stated as written over the rows of the *)
(* sheet and the entries of the Map; completeJob of the spreadsheet        *)
(* variant writing the completion time into the created_at cell refutes it.*)
C15_IdentityFieldsImmutable ==
    [][ /\ \A r \in 1..Len(sheet) : \A c \in IdentityCells : sheet'[r][c] = sheet[r][c]
        /\ \A id \in DOMAIN memoryJobs : \A k \in IdentityFields :
              memoryJobs'[id][k] = memoryJobs[id][k]
        /\ \A r, q \in 1..Len(sheet') : sheet'[r][1] = sheet'[q][1] => r = q
        /\ \A r \in 1..Len(sheet') : \A id \in DOMAIN memoryJobs' :
              sheet'[r][1] # memoryJobs'[id].id
        /\ \A id \in DOMAIN memoryJobs' : memoryJobs'[id].id = Lit(id) ]_vars

C17_LighthouseAfterFrame ==
    [][\A id \in DOMAIN memoryJobs :
          ( /\ RequestStep
            /\ IsAdminPost(last'.req, "lighthouse-after") /\ ParamId(last'.req) = id )
          => /\ DOMAIN memoryJobs' = DOMAIN memoryJobs
             /\ \A other \in DOMAIN memoryJobs \ {id} : memoryJobs'[other] = memoryJobs[other]
             /\ \A k \in JobFields \ {"lighthouse_after"} :
                   memoryJobs'[id][k] = memoryJobs[id][k]
             /\ memoryJobs'[id].lighthouse_after = Field(last'.req.body, "scores")]_vars

\* lighthouse-after has just been recorded on a completed job beside another job
C17_Witness ==
    /\ Answered("lighthouseAfter", 200)
    /\ ParamId(last.req) \in DOMAIN memoryJobs
    /\ memoryJobs[ParamId(last.req)].status = Lit("completed")
    /\ memoryJobs[ParamId(last.req)].lighthouse_after = S2
    /\ Cardinality(DOMAIN memoryJobs) = 2

(* C18: an admin complete call whose body has no netlifyUrl is answered    *)
(* 400, leaves the addressed job and the whole store as they were and      *)
(* sends no notification.                                                  *)
C18_CompleteWithoutUrl400 ==
    [][( /\ RequestStep
         /\ IsAdminPost(last'.req, "complete")
         /\ Field(last'.req.body, "netlifyUrl") = Undefined )
       => /\ last'.status = 400
          /\ UNCHANGED <<memoryJobs, disk>>
          /\ ~last'.mail.attempted]_vars

\* complete without netlifyUrl has just been refused for a job that exists
\* and is still processing
C18_Witness ==
    /\ Answered("completeJob", 400)
    /\ Field(last.req.body, "netlifyUrl") = Undefined
    /\ ParamId(last.req) \in DOMAIN memoryJobs
    /\ memoryJobs[ParamId(last.req)].status = Lit("processing")

(* C19: the lifecycle is permissive: an admin complete call with a         *)
(* netlifyUrl on an existing job is answered 200 and leaves the job        *)
(* completed whatever its status was, and admin lighthouse-before and      *)
(* lighthouse-after calls on an existing job are answered 200 in any       *)
(* status.                                                                 *)
C19_PermissiveLifecycle ==
    [][\A id \in DOMAIN memoryJobs :
        /\ ( /\ RequestStep
             /\ IsAdminPost(last'.req, "complete") /\ ParamId(last'.req) = id
             /\ Truthy(Field(last'.req.body, "netlifyUrl")) )
           => (last'.status = 200 /\ memoryJobs'[id].status = Lit("completed"))
        /\ \A what \in {"lighthouse-before", "lighthouse-after"} :
             ( /\ RequestStep
               /\ IsAdminPost(last'.req, what) /\ ParamId(last'.req) = id )
             => last'.status = 200]_vars

\* a job has just been completed that never was processing: its before-scores
\* were never recorded
C19_Witness ==
    /\ Answered("completeJob", 200)
    /\ ParamId(last.req) \in DOMAIN memoryJobs
    /\ memoryJobs[ParamId(last.req)].status = Lit("completed")
    /\ memoryJobs[ParamId(last.req)].lighthouse_before = Null

(* C20: in the spreadsheet variant, completeJob on an existing row (every  *)
(* spreadsheet request succeeding) sets the row's status to completed,     *)
(* completed_at to the completion time, netlify_url and notes to the given *)
(* values and leaves created_at, lighthouse_before and lighthouse_after,   *)
(* so that getJobById afterwards returns the job with those values.        *)
(* Stated as written, in every reachable state and for every row; the six  *)
(* values written from column D on land one column early and refute it.    *)
C20_SheetCompleteSetsFields ==
    \A r \in 1..Len(sheet) :
        ~RowThrows(sheet[r]) =>
            LET id     == sheet[r][1].v
                before == RowToJob(sheet[r])
                st     == completeJobSheet(sheet, memoryJobs, id, U1, N1, <<TRUE, TRUE>>)
                job    == getJobByIdSheet(st.sheet, st.mem, id, <<TRUE>>)
            IN  /\ job # Null
                /\ job.status = Lit("completed")
                /\ job.completed_at = ISODate(now)
                /\ job.netlify_url = U1
                /\ job.notes = N1
                /\ job.created_at = before.created_at
                /\ job.lighthouse_before = before.lighthouse_before
                /\ job.lighthouse_after = before.lighthouse_after

(* C21: in the file-backed variant, when the requests in flight together   *)
(* are on different job ids, then under every interleaving of their        *)
(* awaits, once every request has finished the JSON file equals the        *)
(* in-memory map: no request's write is lost or reverted by another        *)
(* request's save.  Stated as written; two writeFile calls finishing in    *)
(* the opposite order of their saveDatabase calls refute it.               *)
C21_FileEqualsMapWhenQuiet ==
    InFlight = {} => disk = saveDatabase(memoryJobs)

\* the call is a complete request that got as far as sendCompletionEmail
Dispatched(c) == c.pc \in {"sendMail", "done"} /\ c.dispatched # Null

(* C22: under every interleaving of a complete request with other admin    *)
(* requests on the same job, the job record the complete handler hands to  *)
(* sendCompletionEmail and returns in its 200 response has status          *)
(* completed and the netlify_url of that request.  Stated as written; a    *)
(* lighthouse-before call served while the completion is being saved       *)
(* refutes it.                                                             *)
C22_CompleteDispatchesCompletedJob ==
    \A i \in DOMAIN calls :
        LET c == calls[i]
        IN  /\ Dispatched(c) =>
                 /\ c.dispatched.status = Lit("completed")
                 /\ c.dispatched.netlify_url = Field(c.req.body, "netlifyUrl")
            /\ (Dispatched(c) /\ c.pc = "done") =>
                 /\ c.body.job.status = Lit("completed")
                 /\ c.body.job.netlify_url = Field(c.req.body, "netlifyUrl")

\* the calls that handed job id to sendCompletionEmail
Notifications(id) == {i \in DOMAIN calls : Dispatched(calls[i]) /\ ParamId(calls[i].req) = id}

(* C25: a completion notification is attempted for a job only after the    *)
(* handler's completion of that job has been written to the store, and at  *)
(* most one notification is attempted per job over any sequence of admin   *)
(* requests.  Stated as written; a second complete call on the same job    *)
(* sends a second notification and refutes it.                             *)
C25_NotifyOncePerJob ==
    [][\A id \in RequestIds :
          /\ \A i \in DOMAIN calls :
                (ParamId(calls[i].req) = id /\ ~Dispatched(calls[i]) /\ Dispatched(calls'[i]))
                   => /\ id \in DOMAIN disk'
                      /\ disk'[id].status = Lit("completed")
                      /\ disk'[id].netlify_url = Field(calls[i].req.body, "netlifyUrl")
          /\ Cardinality(Notifications(id)') <= 1]_vars

\* the ids POST /api/jobs has acknowledged with a jobId
Acknowledged == {UUIDS[i] : i \in 1..uuidCount}

(* C23: in the spreadsheet variant a job whose creation was acknowledged   *)
(* with a jobId is retrievable afterwards: getJobById returns it, not      *)
(* null, and getPendingJobs lists it while it is submitted, however the    *)
(* spreadsheet requests before and during the call end.  Stated as         *)
(* written, in every reachable state; a job created while the append       *)
(* failed is not found by a read that succeeds.                            *)
C23_AcknowledgedJobRetrievable ==
    \A id \in Acknowledged : \A ok \in [1..1 -> BOOLEAN] :
        LET job     == getJobByIdSheet(sheet, memoryJobs, id, ok)
            pending == getPendingJobsSheet(sheet, memoryJobs, ok)
        IN  /\ job # Null
            /\ job.id = Lit(id)
            /\ job.status = Lit("submitted")
                  => \E i \in DOMAIN pending : pending[i].id = Lit(id)

\* the ids getPendingJobs returns for a store
PendingIds(jobs) ==
    LET pending == getPendingJobs(jobs)
    IN  {pending[i].id : i \in DOMAIN pending}

(* C24: a job that has left status submitted never again appears in the   *)
(* result of getPendingJobs: no request sets an existing job's status back *)
(* to submitted.                                                           *)
C24_NeverPendingAgain ==
    [][\E pending \in {PendingIds(memoryJobs')} :
          \A id \in DOMAIN memoryJobs :
             memoryJobs[id].status # Lit("submitted")
                => /\ memoryJobs'[id].status # Lit("submitted")
                   /\ Lit(id) \notin pending]_vars

\* lighthouse-after has just been recorded on a job that is being processed
\* while another job is still pending
C24_Witness ==
    /\ Answered("lighthouseAfter", 200)
    /\ ParamId(last.req) \in DOMAIN memoryJobs
    /\ memoryJobs[ParamId(last.req)].status = Lit("processing")
    /\ PendingIds(memoryJobs) # {}
    /\ Lit(ParamId(last.req)) \notin PendingIds(memoryJobs)

\* the step serves a request of SpecLimited (limiter counts every request)
LimitedStep == limits'.api = limits.api + 1

(* C26: the 3-per-hour limiter throttles job creation only: within one     *)
(* window the creations beyond the third are rejected, while status        *)
(* lookups and admin requests neither add to that limiter's count nor are  *)
(* rejected by it.  Stated as written; jobLimiter is mounted on /api/jobs  *)
(* and counts and rejects every request under that path.                   *)
C26_JobLimiterOnlyCreation ==
    [][LimitedStep =>
          /\ (IsCreate(last'.req) /\ limits.jobs >= JobMax) => last'.status = 429
          /\ ~IsCreate(last'.req) =>
                (limits'.jobs = limits.jobs /\ last'.handler # "jobLimiter")]_vars

=============================================================================
